---------------------------- MODULE Spec2Model ----------------------------
(***************************************************************************)
(* Model of the JNI bridge llama_jni.cpp: the LlamaContext wrapper and its *)
(* lifetime, nativeLoadModel, nativeGenerate (real llama.cpp build and     *)
(* stub build), nativeUnloadModel, the accessors, and the rule-based       *)
(* Eisenhower classifier of the stub.                                      *)
(*                                                                         *)
(* Text is a sequence of one-character strings, so that lowercasing,       *)
(* substring search, substr and the JSON formatting are computed the way   *)
(* the code computes them.  The float confidences of the pattern tables    *)
(* are kept in hundredths (0.85f is 85): every float literal of the file   *)
(* has at most two decimals, equal literals are equal floats, and the      *)
(* rounding to float is monotone, so each comparison of the code is the    *)
(* comparison of the hundredths.                                           *)
(***************************************************************************)
EXTENDS Integers, Sequences, FiniteSets, TLC

(***************************************************************************)
(* Bounds of the model.                                                    *)
(***************************************************************************)
\* handles that nativeLoadModel may return in one run
MaxHandles == 1
\* largest maxTokens argument of a generate call
MaxTokens == 2
\* largest scheduling overhead, in ms, that a steady_clock interval adds to
\* the time slept inside it
MaxJitter == 0
\* largest number of fragments concatenated into a classifier input
MaxFrags == 2

(***************************************************************************)
(* Text helpers.                                                           *)
(***************************************************************************)
UpperChars ==
    <<"A", "B", "C", "D", "E", "F", "G", "H", "I", "J", "K", "L", "M",
      "N", "O", "P", "Q", "R", "S", "T", "U", "V", "W", "X", "Y", "Z">>

LowerChars ==
    <<"a", "b", "c", "d", "e", "f", "g", "h", "i", "j", "k", "l", "m",
      "n", "o", "p", "q", "r", "s", "t", "u", "v", "w", "x", "y", "z">>

\* std::tolower in the "C" locale
tolower(c) ==
    IF \E k \in 1..26 : UpperChars[k] = c
    THEN LowerChars[CHOOSE k \in 1..26 : UpperChars[k] = c]
    ELSE c

to_lower_unchanged(s) == s

\* stub::to_lower
to_lower(s) == [k \in 1..Len(s) |-> tolower(s[k])]

\* std::string::npos
npos == -1

\* std::string::find(pattern): 0-based index of the first occurrence, or npos
Find(s, pattern) ==
    LET hits == {k \in 0..(Len(s) - Len(pattern)) :
                    SubSeq(s, k + 1, k + Len(pattern)) = pattern}
    IN  IF hits = {} THEN npos
        ELSE CHOOSE k \in hits : \A m \in hits : k <= m

\* std::string::substr(pos), pos <= size
substr(s, pos) == SubSeq(s, pos + 1, Len(s))

contains(text, pattern) == Find(to_lower(text), pattern) # npos

Max2(a, b) == IF a >= b THEN a ELSE b

(***************************************************************************)
(* namespace stub: constants and pattern tables.                           *)
(***************************************************************************)
\* SIMULATED_MODEL_SIZE = 2400000000 bytes, kept in units of 10^6 bytes
SIMULATED_MODEL_SIZE == 2400
SIMULATED_TOKENS_PER_SEC == 18
SIMULATED_LOAD_TIME_MS == 3500

URGENT_PATTERNS ==
    << [regex_like |-> <<"u", "r", "g", "e", "n", "t">>, quadrant |-> "Q1", confidence |-> 85],
       [regex_like |-> <<"a", "s", "a", "p">>, quadrant |-> "Q1", confidence |-> 80],
       [regex_like |-> <<"i", "m", "m", "e", "d", "i", "a", "t", "e", "l", "y">>, quadrant |-> "Q1", confidence |-> 90],
       [regex_like |-> <<"d", "e", "a", "d", "l", "i", "n", "e", " ", "t", "o", "d", "a", "y">>, quadrant |-> "Q1", confidence |-> 95],
       [regex_like |-> <<"d", "u", "e", " ", "t", "o", "d", "a", "y">>, quadrant |-> "Q1", confidence |-> 90],
       [regex_like |-> <<"e", "m", "e", "r", "g", "e", "n", "c", "y">>, quadrant |-> "Q1", confidence |-> 95],
       [regex_like |-> <<"c", "r", "i", "t", "i", "c", "a", "l">>, quadrant |-> "Q1", confidence |-> 85],
       [regex_like |-> <<"s", "e", "r", "v", "e", "r", " ", "d", "o", "w", "n">>, quadrant |-> "Q1", confidence |-> 95],
       [regex_like |-> <<"c", "l", "i", "e", "n", "t", " ", "w", "a", "i", "t", "i", "n", "g">>, quadrant |-> "Q1", confidence |-> 85] >>

IMPORTANT_PATTERNS ==
    << [regex_like |-> <<"p", "l", "a", "n">>, quadrant |-> "Q2", confidence |-> 80],
       [regex_like |-> <<"s", "t", "r", "a", "t", "e", "g", "y">>, quadrant |-> "Q2", confidence |-> 85],
       [regex_like |-> <<"g", "o", "a", "l">>, quadrant |-> "Q2", confidence |-> 80],
       [regex_like |-> <<"l", "e", "a", "r", "n">>, quadrant |-> "Q2", confidence |-> 75],
       [regex_like |-> <<"h", "e", "a", "l", "t", "h">>, quadrant |-> "Q2", confidence |-> 80],
       [regex_like |-> <<"e", "x", "e", "r", "c", "i", "s", "e">>, quadrant |-> "Q2", confidence |-> 75],
       [regex_like |-> <<"r", "e", "l", "a", "t", "i", "o", "n", "s", "h", "i", "p">>, quadrant |-> "Q2", confidence |-> 80],
       [regex_like |-> <<"c", "a", "r", "e", "e", "r">>, quadrant |-> "Q2", confidence |-> 85],
       [regex_like |-> <<"q", "u", "a", "r", "t", "e", "r", "l", "y">>, quadrant |-> "Q2", confidence |-> 80] >>

DELEGATE_PATTERNS ==
    << [regex_like |-> <<"r", "o", "u", "t", "i", "n", "e">>, quadrant |-> "Q3", confidence |-> 75],
       [regex_like |-> <<"o", "r", "d", "e", "r", " ", "s", "u", "p", "p", "l", "i", "e", "s">>, quadrant |-> "Q3", confidence |-> 80],
       [regex_like |-> <<"s", "c", "h", "e", "d", "u", "l", "e", " ", "m", "e", "e", "t", "i", "n", "g">>, quadrant |-> "Q3", confidence |-> 70],
       [regex_like |-> <<"f", "i", "l", "e">>, quadrant |-> "Q3", confidence |-> 65],
       [regex_like |-> <<"o", "r", "g", "a", "n", "i", "z", "e">>, quadrant |-> "Q3", confidence |-> 65],
       [regex_like |-> <<"s", "u", "r", "v", "e", "y">>, quadrant |-> "Q3", confidence |-> 70],
       [regex_like |-> <<"r", "e", "p", "o", "r", "t">>, quadrant |-> "Q3", confidence |-> 65] >>

ELIMINATE_PATTERNS ==
    << [regex_like |-> <<"s", "o", "c", "i", "a", "l", " ", "m", "e", "d", "i", "a">>, quadrant |-> "Q4", confidence |-> 90],
       [regex_like |-> <<"y", "o", "u", "t", "u", "b", "e">>, quadrant |-> "Q4", confidence |-> 80],
       [regex_like |-> <<"b", "r", "o", "w", "s", "e">>, quadrant |-> "Q4", confidence |-> 75],
       [regex_like |-> <<"s", "c", "r", "o", "l", "l">>, quadrant |-> "Q4", confidence |-> 85],
       [regex_like |-> <<"o", "p", "t", "i", "o", "n", "a", "l">>, quadrant |-> "Q4", confidence |-> 70],
       [regex_like |-> <<"s", "o", "m", "e", "d", "a", "y">>, quadrant |-> "Q4", confidence |-> 75],
       [regex_like |-> <<"m", "a", "y", "b", "e">>, quadrant |-> "Q4", confidence |-> 65] >>

(***************************************************************************)
(* String literals of classify_eisenhower and nativeGenerate.              *)
(***************************************************************************)
S_ELIMINATE ==
    <<"E", "L", "I", "M", "I", "N", "A", "T", "E">>

S_DO ==
    <<"D", "O">>

S_SCHEDULE ==
    <<"S", "C", "H", "E", "D", "U", "L", "E">>

S_DELEGATE ==
    <<"D", "E", "L", "E", "G", "A", "T", "E">>

R_ELIMINATE ==
    <<"T", "a", "s", "k", " ", "a", "p", "p", "e", "a", "r", "s", " ", "t", "o", " ", "b", "e",
      " ", "l", "o", "w", "-", "v", "a", "l", "u", "e", " ", "o", "r", " ", "t", "i", "m", "e",
      "-", "w", "a", "s", "t", "i", "n", "g", " ", "a", "c", "t", "i", "v", "i", "t", "y">>

R_DO ==
    <<"T", "a", "s", "k", " ", "i", "s", " ", "b", "o", "t", "h", " ", "u", "r", "g", "e", "n",
      "t", " ", "a", "n", "d", " ", "i", "m", "p", "o", "r", "t", "a", "n", "t", " ", "-", " ",
      "r", "e", "q", "u", "i", "r", "e", "s", " ", "i", "m", "m", "e", "d", "i", "a", "t", "e",
      " ", "a", "t", "t", "e", "n", "t", "i", "o", "n">>

R_SCHEDULE ==
    <<"T", "a", "s", "k", " ", "i", "s", " ", "i", "m", "p", "o", "r", "t", "a", "n", "t", " ",
      "b", "u", "t", " ", "n", "o", "t", " ", "t", "i", "m", "e", "-", "s", "e", "n", "s", "i",
      "t", "i", "v", "e", " ", "-", " ", "s", "c", "h", "e", "d", "u", "l", "e", " ", "f", "o",
      "r", " ", "f", "o", "c", "u", "s", "e", "d", " ", "w", "o", "r", "k">>

R_DELEGATE_URGENT ==
    <<"T", "a", "s", "k", " ", "i", "s", " ", "u", "r", "g", "e", "n", "t", " ", "b", "u", "t",
      " ", "n", "o", "t", " ", "p", "e", "r", "s", "o", "n", "a", "l", "l", "y", " ", "i", "m",
      "p", "o", "r", "t", "a", "n", "t", " ", "-", " ", "c", "o", "n", "s", "i", "d", "e", "r",
      " ", "d", "e", "l", "e", "g", "a", "t", "i", "o", "n">>

R_DELEGATE_ROUTINE ==
    <<"R", "o", "u", "t", "i", "n", "e", " ", "t", "a", "s", "k", " ", "t", "h", "a", "t", " ",
      "c", "a", "n", " ", "b", "e", " ", "h", "a", "n", "d", "l", "e", "d", " ", "b", "y", " ",
      "o", "t", "h", "e", "r", "s">>

R_DEFAULT ==
    <<"T", "a", "s", "k", " ", "i", "m", "p", "o", "r", "t", "a", "n", "c", "e", " ", "u", "n",
      "c", "l", "e", "a", "r", " ", "-", " ", "s", "c", "h", "e", "d", "u", "l", "i", "n", "g",
      " ", "f", "o", "r", " ", "r", "e", "v", "i", "e", "w">>

J_QUADRANT ==
    <<"{", "\"", "q", "u", "a", "d", "r", "a", "n", "t", "\"", ":", " ", "\"">>

J_CONFIDENCE ==
    <<"\"", ",", " ", "\"", "c", "o", "n", "f", "i", "d", "e", "n", "c", "e", "\"", ":", " ">>

J_REASONING ==
    <<",", " ", "\"", "r", "e", "a", "s", "o", "n", "i", "n", "g", "\"", ":", " ", "\"">>

J_CLOSE ==
    <<"\"", "}">>

S_Eisenhower ==
    <<"E", "i", "s", "e", "n", "h", "o", "w", "e", "r">>

S_quadrant ==
    <<"q", "u", "a", "d", "r", "a", "n", "t">>

S_TaskColon ==
    <<"T", "a", "s", "k", ":">>

UNABLE_TO_PARSE ==
    <<"{", "\"", "q", "u", "a", "d", "r", "a", "n", "t", "\"", ":", " ", "\"", "S", "C", "H",
      "E", "D", "U", "L", "E", "\"", ",", " ", "\"", "c", "o", "n", "f", "i", "d", "e", "n",
      "c", "e", "\"", ":", " ", "0", ".", "5", ",", " ", "\"", "r", "e", "a", "s", "o", "n",
      "i", "n", "g", "\"", ":", " ", "\"", "U", "n", "a", "b", "l", "e", " ", "t", "o", " ",
      "p", "a", "r", "s", "e", " ", "t", "a", "s", "k", "\"", "}">>

STUB_RESPONSE ==
    <<"T", "h", "i", "s", " ", "i", "s", " ", "a", " ", "s", "t", "u", "b", " ", "r", "e", "s",
      "p", "o", "n", "s", "e", ".", " ", "I", "n", " ", "p", "r", "o", "d", "u", "c", "t", "i",
      "o", "n", ",", " ", "t", "h", "i", "s", " ", "w", "o", "u", "l", "d", " ", "b", "e", " ",
      "g", "e", "n", "e", "r", "a", "t", "e", "d", " ", "b", "y", " ", "P", "h", "i", "-", "3",
      "-", "m", "i", "n", "i", ".">>

(***************************************************************************)
(* stub::classify_eisenhower.                                              *)
(***************************************************************************)
\* one "for (const auto& p : TABLE)" loop: the running maximum of the
\* confidences of the patterns the text contains, from entry k on
RECURSIVE ScoreLoop(_, _, _, _)
ScoreLoop(table, lower_text, k, score) ==
    IF k > Len(table) THEN score
    ELSE ScoreLoop(table, lower_text, k + 1,
                   IF contains(lower_text, table[k].regex_like)
                   THEN Max2(score, table[k].confidence)
                   ELSE score)

\* the threshold of the first branch of the quadrant decision, 0.7f
ELIMINATE_THRESHOLD == 70

EliminateFires(eliminate_score) == eliminate_score > ELIMINATE_THRESHOLD

IsImportantInclusive(important_score, urgent_score) ==
    important_score > 50 \/ urgent_score >= 80

\* "bool is_important": an importance literal, or an urgency score above 0.8f
IsImportant(important_score, urgent_score) ==
    important_score > 50 \/ urgent_score > 80

\* the quadrant decision: scores, thresholds and the if/else chain
Verdict(task_text) ==
    LET lower_text      == to_lower(task_text)
        urgent_score    == ScoreLoop(URGENT_PATTERNS, lower_text, 1, 0)
        important_score == ScoreLoop(IMPORTANT_PATTERNS, lower_text, 1, 0)
        delegate_score  == ScoreLoop(DELEGATE_PATTERNS, lower_text, 1, 0)
        eliminate_score == ScoreLoop(ELIMINATE_PATTERNS, lower_text, 1, 0)
        is_urgent       == urgent_score > 50
        is_important    == IsImportant(important_score, urgent_score)
    IN  IF EliminateFires(eliminate_score) THEN
            [quadrant |-> S_ELIMINATE, confidence |-> eliminate_score,
             reasoning |-> R_ELIMINATE]
        ELSE IF is_urgent /\ is_important THEN
            [quadrant |-> S_DO,
             confidence |-> Max2(urgent_score, important_score),
             reasoning |-> R_DO]
        ELSE IF ~is_urgent /\ is_important THEN
            [quadrant |-> S_SCHEDULE, confidence |-> important_score,
             reasoning |-> R_SCHEDULE]
        ELSE IF is_urgent /\ ~is_important THEN
            [quadrant |-> S_DELEGATE,
             confidence |-> Max2(urgent_score, delegate_score),
             reasoning |-> R_DELEGATE_URGENT]
        ELSE IF delegate_score > 50 THEN
            [quadrant |-> S_DELEGATE, confidence |-> delegate_score,
             reasoning |-> R_DELEGATE_ROUTINE]
        ELSE
            [quadrant |-> S_SCHEDULE, confidence |-> 60,
             reasoning |-> R_DEFAULT]

Digits == <<"0", "1", "2", "3", "4", "5", "6", "7", "8", "9">>

\* the digits of a value of c hundredths under the default float format
\* (%g): trailing zeros dropped
FloatDefault(c) ==
    IF c % 100 = 0 THEN <<Digits[(c \div 100) + 1]>>
    ELSE IF c % 10 = 0
    THEN <<Digits[(c \div 100) + 1], ".", Digits[((c \div 10) % 10) + 1]>>
    ELSE <<Digits[(c \div 100) + 1], ".", Digits[((c \div 10) % 10) + 1],
           Digits[(c % 10) + 1]>>

\* operator<< of a float under std::fixed << std::setprecision(2), for a
\* value of c hundredths with 0 <= c < 1000
Fixed2(c) ==
    <<Digits[(c \div 100) + 1], ".", Digits[((c \div 10) % 10) + 1],
      Digits[(c % 10) + 1]>>

\* the ostringstream of classify_eisenhower
Serialize(v) ==
    J_QUADRANT \o v.quadrant \o J_CONFIDENCE \o Fixed2(v.confidence)
        \o J_REASONING \o v.reasoning \o J_CLOSE

classify_eisenhower(task_text) == Serialize(Verdict(task_text))

\* stub::simulate_delay: the milliseconds slept for a token count
simulate_delay(tokens) == (tokens * 1000) \div SIMULATED_TOKENS_PER_SEC

(***************************************************************************)
(* The environment of the bridge: the build, the file system, the caller's *)
(* arguments and the llama.cpp library.                                    *)
(***************************************************************************)
\* LLAMA_AVAILABLE is 1 in the "real" build and 0 in the "stub" build
Builds == {"real", "stub"}

\* the threads of the host that call into the bridge
Threads == {"T1", "T2"}

Handles == 1..MaxHandles

PATH_MODEL ==
    <<"/", "s", "d", "c", "a", "r", "d", "/", "m", "o", "d", "e", "l", ".", "g", "g", "u", "f">>

PATH_MISSING ==
    <<"/", "s", "d", "c", "a", "r", "d", "/", "m", "i", "s", "s", "i", "n", "g", ".", "g", "g",
      "u", "f">>

Paths == {PATH_MODEL, PATH_MISSING}

\* the file system: whether a path names a readable file
Readable(path) == path = PATH_MODEL

\* the contextSize arguments of nativeLoadModel
ContextSizes == {8}

P_EMPTY == <<>>

P_HI ==
    <<"h", "i">>

P_NO_TASK ==
    <<"W", "h", "i", "c", "h", " ", "q", "u", "a", "d", "r", "a", "n", "t", "?">>

P_MAYBE ==
    <<"q", "u", "a", "d", "r", "a", "n", "t", "?", " ", "T", "a", "s", "k", ":", " ", "m", "a",
      "y", "b", "e">>

P_URGENT ==
    <<"E", "i", "s", "e", "n", "h", "o", "w", "e", "r", " ", "T", "a", "s", "k", ":", " ", "U",
      "R", "G", "E", "N", "T", " ", "p", "l", "a", "n">>

Prompts == {P_EMPTY, P_HI, P_NO_TASK, P_MAYBE, P_URGENT}

MaxTokensArgs == 0..MaxTokens

\* llama_token_is_eog holds of EOG only; the other tokens of the vocabulary
EOG == 0

Vocab == {EOG, 1, 2}

\* llama_token_to_piece: the text of a token (token 2 has an empty piece,
\* for which the call returns n = 0)
Piece(token) == IF token = 1 THEN <<"a">> ELSE <<>>

\* llama_tokenize with n_tokens_max = n_ctx, for a vocabulary of one token
\* per character and no BOS: the token count, negated when it exceeds the
\* buffer
llama_tokenize(text, n_tokens_max) ==
    IF Len(text) > n_tokens_max THEN -Len(text) ELSE Len(text)

\* the tokens llama_tokenize writes for the text: one per character ("a" is
\* token 1, the other characters have tokens no sampler returns)
TokenOf(c) ==
    IF c = "a" THEN 1
    ELSE IF \E m \in 1..26 : LowerChars[m] = c
    THEN 2 + (CHOOSE m \in 1..26 : LowerChars[m] = c)
    ELSE IF \E m \in 1..26 : UpperChars[m] = c
    THEN 28 + (CHOOSE m \in 1..26 : UpperChars[m] = c)
    ELSE 60

Tokens(text) == [k \in 1..Len(text) |-> TokenOf(text[k])]

\* the batch of llama_batch_init and the llama_batch_add of every token at
\* position i, and the index "batch.logits[batch.n_tokens - 1] = true" writes
PromptBatch(tokens) ==
    [n_tokens |-> Len(tokens), token |-> tokens,
     pos |-> [k \in 1..Len(tokens) |-> k - 1],
     logits_index |-> Len(tokens) - 1]

\* the temperature (tenths) and top_p (tenths) the host passes
Temperatures == {7, 8}

TopPs == {9}

\* the seed of llama_sampler_init_dist
SAMPLER_SEED == 42

RECURSIVE SumTokens(_)
SumTokens(s) == IF s = <<>> THEN 0 ELSE s[1] + SumTokens(Tail(s))

\* llama_sampler_sample(sampler, ctx, -1): the chain temp -> top_p -> dist is
\* a fixed function of the logits of the last decode (here: of the tokens
\* that decode had in the kv cache), of the chain's parameters, of the seed
\* and of the number of draws the sampler has made.  The function stands for
\* the model's weights; it answers with EOG, "a" or the control token.
llama_sampler_sample(logits, draws, temperature, topP) ==
    (SAMPLER_SEED + SumTokens(logits) + draws + temperature + topP) % 3

\* llama_get_state_size of a context (any positive size; here the window)
llama_get_state_size(n_ctx) == n_ctx

\* end - start of two steady_clock::now() readings around a sleep of
\* slept ms: the time slept and an overhead j >= 0
Elapsed(slept, j) == slept + j

(***************************************************************************)
(* State.                                                                  *)
(***************************************************************************)
VARIABLES
    build,      \* the value of LLAMA_AVAILABLE this binary was compiled with
    heap,       \* the LlamaContext objects, by address
    native,     \* the llama_model and llama_context behind each wrapper
    nextHandle, \* the address the next "new LlamaContext()" returns
    th,         \* each thread's position and locals inside the bridge
    crashed,    \* the process has been killed (abort, SIGSEGV)
    task_text,  \* classifier harness: the input of classify_eisenhower
    verdict     \* classifier harness: its last output

vars == <<build, heap, native, nextHandle, th, crashed, task_text, verdict>>

\* struct LlamaContext after "new LlamaContext()"
NewWrapper(b) ==
    [st |-> "live", model |-> FALSE, ctx |-> FALSE, mutex |-> "none",
     is_stub |-> (b = "stub"), load_time_ms |-> 0,
     last_inference_time_ms |-> 0, last_tokens_generated |-> 0,
     memory_usage_bytes |-> 0]

\* an address that no "new" has returned yet
NoWrapper == [NewWrapper("real") EXCEPT !.st = "unalloc"]

\* the native objects of one wrapper: "none" (never created), "live", "freed"
NoNative ==
    [model |-> "none", ctx |-> "none", model_frees |-> 0, ctx_frees |-> 0,
     n_ctx |-> 0, kv |-> <<>>, logits |-> <<>>]

\* the harness before classify_eisenhower has been called
NoVerdict ==
    [called |-> FALSE, quadrant |-> <<>>, confidence |-> 0, reasoning |-> <<>>,
     json |-> <<>>]

\* a thread outside the bridge
Idle ==
    [pc |-> "idle", op |-> "none", h |-> 0, path |-> <<>>, prompt |-> <<>>,
     maxTokens |-> 0, temperature |-> 0, topP |-> 0, new_token |-> 0,
     n_tokens |-> 0, n_cur |-> 0, i |-> 0, tokens_generated |-> 0,
     result |-> <<>>, exit |-> "none", rv |-> 0]

llama_kv_cache_keep(n) == n

\* llama_kv_cache_clear(ctx): the cache is emptied, the logits stay
llama_kv_cache_clear(n) == [n EXCEPT !.kv = <<>>]

\* llama_decode(ctx, batch) returning 0: the batch's tokens enter the cache
\* and the logits are those of the cache's content
llama_decode(n, tokens) ==
    [n EXCEPT !.kv = n.kv \o tokens, !.logits = n.kv \o tokens]

\* llama_free(ctx)
llama_free(n) == [n EXCEPT !.ctx = "freed", !.ctx_frees = @ + 1]

\* llama_free_model(model)
llama_free_model(n) == [n EXCEPT !.model = "freed", !.model_frees = @ + 1]

\* ~LlamaContext: frees what the wrapper's two pointers hold
Destructor(w, n) ==
    LET n1 == IF w.ctx THEN llama_free(n) ELSE n
    IN  IF w.model THEN llama_free_model(n1) ELSE n1

\* a free of an object that was already freed
DoubleFree(n) == n.model_frees > 1 \/ n.ctx_frees > 1

\* the handles a caller may pass: 0, or one that load returned and that
\* has not been unloaded when the call is made
Callable == {0} \cup {h \in Handles : heap[h].st = "live"}

Init ==
    /\ build \in Builds
    /\ heap = [h \in Handles |-> NoWrapper]
    /\ native = [h \in Handles |-> NoNative]
    /\ nextHandle = 1
    /\ th = [t \in Threads |-> Idle]
    /\ crashed = FALSE
    /\ task_text = <<>>
    /\ verdict = NoVerdict

Harness == UNCHANGED <<task_text, verdict>>

(***************************************************************************)
(* nativeLoadModel.  The wrapper is private to the call until it returns,  *)
(* so the call is one step.  model_ok and ctx_ok are the library's answers *)
(* for a readable file; j is the clock overhead; ub is whether a free of   *)
(* freed memory kills the process.                                         *)
(***************************************************************************)
LoadRealUnchecked(w, path, contextSize, model_ok, ctx_ok, j) ==
    LET w0 == NewWrapper("real")
        loaded == Readable(path) /\ model_ok
        w1 == [w0 EXCEPT !.model = loaded]
        n1 == [NoNative EXCEPT !.model = IF loaded THEN "live" ELSE "none"]
    IN  IF ~w1.model THEN
            [wrapper |-> [w1 EXCEPT !.st = "freed"],
             nat |-> Destructor(w1, n1), rv |-> 0]
        ELSE
            [wrapper |-> [w1 EXCEPT !.ctx = ctx_ok,
                             !.memory_usage_bytes = llama_get_state_size(contextSize),
                             !.load_time_ms = Elapsed(0, j)],
             nat |-> [n1 EXCEPT !.ctx = IF ctx_ok THEN "live" ELSE "none",
                                !.n_ctx = contextSize],
             rv |-> w]

\* the real branch of nativeLoadModel
LoadReal(w, path, contextSize, model_ok, ctx_ok, j) ==
    LET w0 == NewWrapper("real")
        loaded == Readable(path) /\ model_ok
        w1 == [w0 EXCEPT !.model = loaded]
        n1 == [NoNative EXCEPT !.model = IF loaded THEN "live" ELSE "none"]
    IN  IF ~w1.model THEN
            \* delete wrapper; return 0
            [wrapper |-> [w1 EXCEPT !.st = "freed"],
             nat |-> Destructor(w1, n1), rv |-> 0]
        ELSE IF ~ctx_ok THEN
            \* llama_free_model(wrapper->model); delete wrapper; return 0
            [wrapper |-> [w1 EXCEPT !.st = "freed"],
             nat |-> Destructor(w1, llama_free_model(n1)), rv |-> 0]
        ELSE
            [wrapper |-> [w1 EXCEPT !.ctx = TRUE,
                             !.memory_usage_bytes = llama_get_state_size(contextSize),
                             !.load_time_ms = Elapsed(0, j)],
             nat |-> [n1 EXCEPT !.ctx = "live", !.n_ctx = contextSize],
             rv |-> w]

\* the stub branch of nativeLoadModel
LoadStub(w, path, j) ==
    [wrapper |-> [NewWrapper("stub") EXCEPT
                     !.is_stub = TRUE,
                     !.memory_usage_bytes = SIMULATED_MODEL_SIZE,
                     !.load_time_ms = Elapsed(SIMULATED_LOAD_TIME_MS, j)],
     nat |-> NoNative, rv |-> w]

LoadModel(t) ==
    /\ ~crashed
    /\ th[t].pc = "idle"
    /\ nextHandle <= MaxHandles
    /\ \E path \in Paths, contextSize \in ContextSizes,
          model_ok \in BOOLEAN, ctx_ok \in BOOLEAN, j \in 0..MaxJitter,
          ub \in BOOLEAN :
          LET out == IF build = "real"
                     THEN LoadReal(nextHandle, path, contextSize, model_ok, ctx_ok, j)
                     ELSE LoadStub(nextHandle, path, j)
          IN  /\ heap' = [heap EXCEPT ![nextHandle] = out.wrapper]
              /\ native' = [native EXCEPT ![nextHandle] = out.nat]
              /\ crashed' = (DoubleFree(out.nat) /\ ub)
              \* the address of a wrapper deleted by a failed load is the
              \* allocator's to hand out again
              /\ nextHandle' = IF out.rv = 0 THEN nextHandle ELSE nextHandle + 1
              /\ th' = [th EXCEPT ![t] =
                          [Idle EXCEPT !.pc = "ret", !.op = "load",
                                       !.path = path, !.rv = out.rv]]
    /\ UNCHANGED build
    /\ Harness

(***************************************************************************)
(* nativeUnloadModel: "delete wrapper" with no lock taken.                 *)
(***************************************************************************)
\* the wrapper and its native objects after nativeUnloadModel(h), h # 0
Unload(w, n) == [wrapper |-> [w EXCEPT !.st = "freed"], nat |-> Destructor(w, n)]

UnloadModel(t) ==
    /\ ~crashed
    /\ th[t].pc = "idle"
    /\ \E h \in Callable :
          /\ IF h # 0
             THEN LET out == Unload(heap[h], native[h])
                  IN  /\ heap' = [heap EXCEPT ![h] = out.wrapper]
                      /\ native' = [native EXCEPT ![h] = out.nat]
             ELSE UNCHANGED <<heap, native>>
          /\ th' = [th EXCEPT ![t] =
                      [Idle EXCEPT !.pc = "ret", !.op = "unload", !.h = h]]
    /\ UNCHANGED <<build, nextHandle, crashed>>
    /\ Harness

(***************************************************************************)
(* The accessors: no lock, one read.                                       *)
(***************************************************************************)
getMemoryUsage(h) == IF h = 0 THEN 0 ELSE heap[h].memory_usage_bytes

getLoadTimeMs(h) == IF h = 0 THEN 0 ELSE heap[h].load_time_ms

getLastInferenceTimeMs(h) ==
    IF h = 0 THEN 0 ELSE heap[h].last_inference_time_ms

getLastTokenCount(h) == IF h = 0 THEN 0 ELSE heap[h].last_tokens_generated

isStubImplementationNull(h) == IF h = 0 THEN FALSE ELSE heap[h].is_stub

isStubImplementation(h) == IF h = 0 THEN TRUE ELSE heap[h].is_stub

Accessors ==
    {"getMemoryUsage", "getLoadTimeMs", "getLastInferenceTimeMs",
     "getLastTokenCount", "isStubImplementation"}

AccessorValue(op, h) ==
    CASE op = "getMemoryUsage" -> getMemoryUsage(h)
      [] op = "getLoadTimeMs" -> getLoadTimeMs(h)
      [] op = "getLastInferenceTimeMs" -> getLastInferenceTimeMs(h)
      [] op = "getLastTokenCount" -> getLastTokenCount(h)
      [] op = "isStubImplementation" -> isStubImplementation(h)

\* an accessor call by thread t: the JNI function op applied to a handle
AccessorCall(t, op) ==
    /\ ~crashed
    /\ th[t].pc = "idle"
    /\ \E h \in Callable :
          th' = [th EXCEPT ![t] =
                    [Idle EXCEPT !.pc = "ret", !.op = op, !.h = h,
                                 !.rv = AccessorValue(op, h)]]
    /\ UNCHANGED <<build, heap, native, nextHandle, crashed>>
    /\ Harness

GetMemoryUsage(t) == AccessorCall(t, "getMemoryUsage")

GetLoadTimeMs(t) == AccessorCall(t, "getLoadTimeMs")

GetLastInferenceTimeMs(t) == AccessorCall(t, "getLastInferenceTimeMs")

GetLastTokenCount(t) == AccessorCall(t, "getLastTokenCount")

IsStubImplementation(t) == AccessorCall(t, "isStubImplementation")

\* the call has returned to the host, which goes on
Resume(t) ==
    /\ ~crashed
    /\ th[t].pc = "ret"
    /\ th' = [th EXCEPT ![t] = Idle]
    /\ UNCHANGED <<build, heap, native, nextHandle, crashed>>
    /\ Harness

(***************************************************************************)
(* nativeGenerate.  pc follows the source: "g_lock" is the lock_guard's    *)
(* constructor, "g_body" the code after "start", "g_decode" the prompt's   *)
(* llama_decode, "g_abort" the early return, "g_loop" the head of the for  *)
(* loop, "g_step" the decode of the sampled token, "g_delay" the stub's    *)
(* sleep, "g_end" the code after the #endif, "g_ret" the final return.     *)
(* The lock_guard's destructor runs in the step that returns.              *)
(***************************************************************************)
InGenerate ==
    {"g_lock", "g_body", "g_decode", "g_abort", "g_loop",
     "g_step", "g_delay", "g_end", "g_ret"}

\* the positions between the lock_guard's constructor and its destructor
Critical == InGenerate \ {"g_lock"}

\* the handle check, then the wait for the lock; the host draws the prompt
\* maxTokens and the temperature from the given sets
GenCall(t, prompts, budgets, temperatures) ==
    /\ ~crashed
    /\ th[t].pc = "idle"
    /\ \E h \in Callable, prompt \in prompts, maxTokens \in budgets,
          temperature \in temperatures, topP \in TopPs :
          th' = [th EXCEPT ![t] =
                    IF h = 0
                    THEN [Idle EXCEPT !.pc = "ret", !.op = "generate",
                                      !.rv = <<>>]
                    ELSE [Idle EXCEPT !.pc = "g_lock", !.op = "generate",
                                      !.h = h, !.prompt = prompt,
                                      !.maxTokens = maxTokens,
                                      !.temperature = temperature,
                                      !.topP = topP]]
    /\ UNCHANGED <<build, heap, native, nextHandle, crashed>>
    /\ Harness

\* std::mutex::lock: blocks while another thread owns the mutex.  The state
\* of a mutex whose wrapper was deleted is indeterminate: the lock may also
\* be granted while the stale owner field is set.
MutexFreeNoWait(w) == TRUE

MutexFree(w) == w.mutex = "none" \/ w.st = "freed"

GenLock(t) ==
    /\ ~crashed
    /\ th[t].pc = "g_lock"
    /\ MutexFree(heap[th[t].h])
    /\ heap' = [heap EXCEPT ![th[t].h].mutex = t]
    /\ th' = [th EXCEPT ![t].pc = "g_body", ![t].result = <<>>,
                        ![t].tokens_generated = 0]
    /\ UNCHANGED <<build, native, nextHandle, crashed>>
    /\ Harness

\* real build: llama_tokenize and tokens.resize(n_tokens), then
\* llama_kv_cache_clear, the prompt batch and the write of
\* batch.logits[batch.n_tokens - 1].  A negative n_tokens converts to a size
\* above max_size(): resize throws std::length_error, which nothing catches,
\* and the process aborts.  With no token the index of the write is -1: a
\* write outside the array, after which the process is killed (ub) or goes on.
GenTokenize(t) ==
    /\ ~crashed
    /\ build = "real"
    /\ th[t].pc = "g_body"
    /\ LET n_tokens == llama_tokenize(th[t].prompt, native[th[t].h].n_ctx)
       IN  IF n_tokens < 0
           THEN /\ th' = [th EXCEPT ![t].n_tokens = n_tokens]
                /\ crashed' = TRUE
                /\ UNCHANGED native
           ELSE LET batch == PromptBatch(Tokens(th[t].prompt))
                IN  /\ th' = [th EXCEPT ![t].n_tokens = n_tokens,
                                        ![t].pc = "g_decode"]
                    /\ native' = [native EXCEPT ![th[t].h] =
                                      llama_kv_cache_clear(native[th[t].h])]
                    /\ \E ub \in BOOLEAN :
                          crashed' = (/\ batch.logits_index \notin
                                            0..(batch.n_tokens - 1)
                                      /\ ub)
    /\ UNCHANGED <<build, heap, nextHandle>>
    /\ Harness

\* real build: llama_decode of the prompt batch (ok: it returned 0; it never
\* does for a batch of no token), then the sampler chain, which has made no
\* draw, and n_cur = tokens.size()
GenPromptDecode(t) ==
    /\ ~crashed
    /\ th[t].pc = "g_decode"
    /\ \E ok \in BOOLEAN :
          IF ok /\ th[t].n_tokens > 0
          THEN /\ native' = [native EXCEPT ![th[t].h] =
                                 llama_decode(native[th[t].h],
                                     PromptBatch(Tokens(th[t].prompt)).token)]
               /\ th' = [th EXCEPT ![t].pc = "g_loop",
                                   ![t].n_cur = th[t].n_tokens, ![t].i = 0]
          ELSE /\ th' = [th EXCEPT ![t].pc = "g_abort"]
               /\ UNCHANGED native
    /\ UNCHANGED <<build, heap, nextHandle, crashed>>
    /\ Harness

\* real build: "return env->NewStringUTF("")" after the failed prompt decode
GenAbortReturn(t) ==
    /\ ~crashed
    /\ th[t].pc = "g_abort"
    /\ heap' = [heap EXCEPT ![th[t].h].mutex = "none"]
    /\ th' = [th EXCEPT ![t].pc = "ret", ![t].rv = <<>>]
    /\ UNCHANGED <<build, native, nextHandle, crashed>>
    /\ Harness

LoopContinuesInclusive(i, maxTokens) == i <= maxTokens

\* the loop condition of "for (int i = 0; i < maxTokens; i++)"
LoopContinues(i, maxTokens) == i < maxTokens

\* real build: the loop condition is false
GenLoopExit(t) ==
    /\ ~crashed
    /\ th[t].pc = "g_loop"
    /\ ~LoopContinues(th[t].i, th[t].maxTokens)
    /\ th' = [th EXCEPT ![t].pc = "g_end", ![t].exit = "budget"]
    /\ UNCHANGED <<build, heap, native, nextHandle, crashed>>
    /\ Harness

\* the locals after one sampled token: break on EOG, else the piece is
\* appended and the token counted
Sampled(l, new_token) ==
    IF new_token = EOG
    THEN [l EXCEPT !.pc = "g_end", !.exit = "eog", !.new_token = new_token]
    ELSE [l EXCEPT !.pc = "g_step", !.new_token = new_token,
                   !.result = IF Len(Piece(new_token)) > 0
                              THEN l.result \o Piece(new_token) ELSE l.result,
                   !.tokens_generated = l.tokens_generated + 1]

\* real build: one pass of the loop body up to the decode; at the head of
\* pass i the sampler of this call has made i draws
GenSample(t) ==
    /\ ~crashed
    /\ th[t].pc = "g_loop"
    /\ LoopContinues(th[t].i, th[t].maxTokens)
    /\ LET new_token == llama_sampler_sample(native[th[t].h].logits, th[t].i,
                                              th[t].temperature, th[t].topP)
       IN  th' = [th EXCEPT ![t] = Sampled(th[t], new_token)]
    /\ UNCHANGED <<build, heap, native, nextHandle, crashed>>
    /\ Harness

DecodedNoAdvance(l, ok) ==
    IF ok
    THEN [l EXCEPT !.pc = "g_loop", !.i = l.i + 1]
    ELSE [l EXCEPT !.pc = "g_end", !.exit = "decode"]

\* the locals after the decode of the sampled token: break on failure, else
\* n_cur++ and the loop's i++
Decoded(l, ok) ==
    IF ok
    THEN [l EXCEPT !.pc = "g_loop", !.n_cur = l.n_cur + 1, !.i = l.i + 1]
    ELSE [l EXCEPT !.pc = "g_end", !.exit = "decode"]

\* real build: llama_decode of the one-token batch (ok: it returned 0)
GenTokenDecode(t) ==
    /\ ~crashed
    /\ th[t].pc = "g_step"
    /\ \E ok \in BOOLEAN :
          /\ th' = [th EXCEPT ![t] = Decoded(th[t], ok)]
          /\ native' = [native EXCEPT ![th[t].h] =
                            IF ok THEN llama_decode(@, <<th[t].new_token>>)
                            ELSE @]
    /\ UNCHANGED <<build, heap, nextHandle, crashed>>
    /\ Harness

StubGenerateWholePrompt(promptCpp) ==
    IF Find(promptCpp, S_Eisenhower) # npos \/ Find(promptCpp, S_quadrant) # npos
    THEN LET task_start == Find(promptCpp, S_TaskColon)
         IN  IF task_start # npos
             THEN [result |-> classify_eisenhower(substr(promptCpp, task_start + 5)),
                   tokens_generated |-> 50]
             ELSE [result |-> classify_eisenhower(promptCpp),
                   tokens_generated |-> 30]
    ELSE [result |-> STUB_RESPONSE, tokens_generated |-> 20]

StubGenerateFifty(promptCpp) ==
    IF Find(promptCpp, S_Eisenhower) # npos \/ Find(promptCpp, S_quadrant) # npos
    THEN LET task_start == Find(promptCpp, S_TaskColon)
         IN  IF task_start # npos
             THEN [result |-> classify_eisenhower(substr(promptCpp, task_start + 5)),
                   tokens_generated |-> 50]
             ELSE [result |-> UNABLE_TO_PARSE, tokens_generated |-> 50]
    ELSE [result |-> STUB_RESPONSE, tokens_generated |-> 20]

\* the stub branch of nativeGenerate: result and tokens_generated
StubGenerate(promptCpp) ==
    IF Find(promptCpp, S_Eisenhower) # npos \/ Find(promptCpp, S_quadrant) # npos
    THEN LET task_start == Find(promptCpp, S_TaskColon)
         IN  IF task_start # npos
             THEN [result |-> classify_eisenhower(substr(promptCpp, task_start + 5)),
                   tokens_generated |-> 50]
             ELSE [result |-> UNABLE_TO_PARSE, tokens_generated |-> 30]
    ELSE [result |-> STUB_RESPONSE, tokens_generated |-> 20]

\* stub build: the response is computed
GenStub(t) ==
    /\ ~crashed
    /\ build = "stub"
    /\ th[t].pc = "g_body"
    /\ LET out == StubGenerate(th[t].prompt)
       IN  th' = [th EXCEPT ![t].pc = "g_delay", ![t].result = out.result,
                            ![t].tokens_generated = out.tokens_generated]
    /\ UNCHANGED <<build, heap, native, nextHandle, crashed>>
    /\ Harness

\* stub build: stub::simulate_delay returns when the sleep is over
GenDelay(t) ==
    /\ ~crashed
    /\ th[t].pc = "g_delay"
    /\ th' = [th EXCEPT ![t].pc = "g_end"]
    /\ UNCHANGED <<build, heap, native, nextHandle, crashed>>
    /\ Harness

\* the wrapper after the two counters are written
WriteCounters(w, elapsed, tokens_generated) ==
    [w EXCEPT !.last_inference_time_ms = elapsed,
              !.last_tokens_generated = tokens_generated]

\* "end", and the counters of the wrapper
GenFinish(t) ==
    /\ ~crashed
    /\ th[t].pc = "g_end"
    /\ \E j \in 0..MaxJitter :
          LET slept == IF build = "stub"
                       THEN simulate_delay(th[t].tokens_generated) ELSE 0
          IN  heap' = [heap EXCEPT ![th[t].h] =
                          WriteCounters(@, Elapsed(slept, j), th[t].tokens_generated)]
    /\ th' = [th EXCEPT ![t].pc = "g_ret"]
    /\ UNCHANGED <<build, native, nextHandle, crashed>>
    /\ Harness

\* "return env->NewStringUTF(result.c_str())" and the lock_guard's destructor
GenReturn(t) ==
    /\ ~crashed
    /\ th[t].pc = "g_ret"
    /\ heap' = [heap EXCEPT ![th[t].h].mutex = "none"]
    /\ th' = [th EXCEPT ![t].pc = "ret", ![t].rv = th[t].result]
    /\ UNCHANGED <<build, native, nextHandle, crashed>>
    /\ Harness

\* a generate call touches a wrapper that nativeUnloadModel has deleted:
\* a use of freed memory, which may kill the process at any such step (the
\* other outcome, going on with the stale bytes, is the step itself)
UseAfterFree(t) ==
    /\ ~crashed
    /\ th[t].pc \in InGenerate
    /\ heap[th[t].h].st = "freed"
    /\ crashed' = TRUE
    /\ UNCHANGED <<build, heap, native, nextHandle, th>>
    /\ Harness

\* every JNI call and every step of a call in flight, for one thread
Bridge(t, prompts, budgets, temperatures) ==
    \/ LoadModel(t)
    \/ UnloadModel(t)
    \/ GetMemoryUsage(t)
    \/ GetLoadTimeMs(t)
    \/ GetLastInferenceTimeMs(t)
    \/ GetLastTokenCount(t)
    \/ IsStubImplementation(t)
    \/ Resume(t)
    \/ GenCall(t, prompts, budgets, temperatures)
    \/ GenLock(t)
    \/ GenTokenize(t)
    \/ GenPromptDecode(t)
    \/ GenAbortReturn(t)
    \/ GenLoopExit(t)
    \/ GenSample(t)
    \/ GenTokenDecode(t)
    \/ GenStub(t)
    \/ GenDelay(t)
    \/ GenFinish(t)
    \/ GenReturn(t)

(***************************************************************************)
(* Spec: the host calls the bridge from two threads at once.  The          *)
(* interleavings, not the arguments, are what this specification explores: *)
(* the generate calls use one prompt, one budget and one temperature.      *)
(***************************************************************************)
RacePrompts == {P_HI}

RaceBudgets == {1}

RaceTemperatures == {7}

Next == \E t \in Threads : Bridge(t, RacePrompts, RaceBudgets, RaceTemperatures) \/ UseAfterFree(t)

Spec == Init /\ [][Next]_vars

(***************************************************************************)
(* SeqSpec: the host calls the bridge from one thread, with every prompt   *)
(* and every budget.                                                       *)
(***************************************************************************)
NextSeq == Bridge("T1", Prompts, MaxTokensArgs, Temperatures)

SeqSpec == Init /\ [][NextSeq]_vars

(***************************************************************************)
(* ClassifySpec: classify_eisenhower applied to task texts.  The texts are *)
(* the concatenations of up to MaxFrags fragments; the fragments hold      *)
(* literals of each pattern table (above, at and below the thresholds),    *)
(* upper case, a near miss ("browsing" does not contain "browse") and text *)
(* with no literal.                                                        *)
(***************************************************************************)
F_SOCIAL ==
    <<"s", "o", "c", "i", "a", "l", " ", "m", "e", "d", "i", "a", " ">>

F_OPTIONAL ==
    <<"o", "p", "t", "i", "o", "n", "a", "l", " ">>

F_MAYBE ==
    <<"M", "a", "y", "b", "e", " ">>

F_BROWSING ==
    <<"b", "r", "o", "w", "s", "i", "n", "g", " ">>

F_URGENT ==
    <<"U", "R", "G", "E", "N", "T", " ">>

F_ASAP ==
    <<"a", "s", "a", "p", " ">>

F_DEADLINE ==
    <<"d", "e", "a", "d", "l", "i", "n", "e", " ", "t", "o", "d", "a", "y", " ">>

F_PLAN ==
    <<"P", "l", "a", "n", " ">>

F_FILE ==
    <<"f", "i", "l", "e", " ">>

F_MILK ==
    <<"b", "u", "y", " ", "m", "i", "l", "k", " ">>

Fragments ==
    {F_SOCIAL, F_OPTIONAL, F_MAYBE, F_BROWSING, F_URGENT, F_ASAP, F_DEADLINE,
     F_PLAN, F_FILE, F_MILK}

RECURSIVE TextsUpTo(_)
TextsUpTo(n) ==
    IF n = 0 THEN {<<>>}
    ELSE LET shorter == TextsUpTo(n - 1)
         IN  shorter \cup {s \o f : s \in shorter, f \in Fragments}

TaskTexts == TextsUpTo(MaxFrags)

ClassifyInit ==
    /\ build \in Builds
    /\ heap = [h \in Handles |-> NoWrapper]
    /\ native = [h \in Handles |-> NoNative]
    /\ nextHandle = 1
    /\ th = [t \in Threads |-> Idle]
    /\ crashed = FALSE
    /\ task_text \in TaskTexts
    /\ verdict = NoVerdict

\* one call of classify_eisenhower(task_text)
Classify ==
    /\ ~verdict.called
    /\ LET v == Verdict(task_text)
       IN  verdict' = [called |-> TRUE, quadrant |-> v.quadrant,
                       confidence |-> v.confidence, reasoning |-> v.reasoning,
                       json |-> classify_eisenhower(task_text)]
    /\ UNCHANGED <<build, heap, native, nextHandle, th, crashed, task_text>>

ClassifyNext == Classify

ClassifySpec == ClassifyInit /\ [][ClassifyNext]_vars

(***************************************************************************)
(* LiveSpec: the host loads a model and calls generate from two threads;   *)
(* it neither unloads nor reads the counters.  A thread inside a call      *)
(* keeps running (weak fairness of its steps: the scheduler does not       *)
(* suspend a runnable thread forever), and a thread waiting for the mutex  *)
(* gets it if it is free again and again (strong fairness of the lock).    *)
(* The host is free to stop calling.                                       *)
(***************************************************************************)
LivePrompts == {P_HI, P_NO_TASK}

LiveBudgets == {1}

\* the steps of a call in flight that need no lock to be free
GenStep(t) ==
    \/ GenTokenize(t)
    \/ GenPromptDecode(t)
    \/ GenAbortReturn(t)
    \/ GenLoopExit(t)
    \/ GenSample(t)
    \/ GenTokenDecode(t)
    \/ GenStub(t)
    \/ GenDelay(t)
    \/ GenFinish(t)
    \/ GenReturn(t)

LiveBridge(t) ==
    \/ LoadModel(t)
    \/ Resume(t)
    \/ GenCall(t, LivePrompts, LiveBudgets, RaceTemperatures)
    \/ GenLock(t)
    \/ GenStep(t)

NextLive == \E t \in Threads : LiveBridge(t)

LiveSpec ==
    /\ Init
    /\ [][NextLive]_vars
    /\ \A t \in Threads : WF_vars(GenStep(t)) /\ SF_vars(GenLock(t))

(***************************************************************************)
(* Properties.                                                             *)
(***************************************************************************)
\* the threads inside the critical section of nativeGenerate on handle h
InCritical(h) == {t \in Threads : th[t].pc \in Critical /\ th[t].h = h}

\* C1: on a handle that has not been deleted, at most one generate call is
\* between the lock_guard's constructor and its destructor (prompt
\* processing, decoding, the stub's sleep, the counter update), and that call
\* is the owner of the handle's mutex.
C1_MutualExclusion ==
    \A h \in Handles :
        heap[h].st = "live" =>
            /\ Cardinality(InCritical(h)) <= 1
            /\ \A t \in InCritical(h) : heap[h].mutex = t

\* C1 witness: one call is in the stub's sleep or in the token loop while a
\* second call on the same live handle waits for the lock.
C1_Witness ==
    \E t1 \in Threads, t2 \in Threads :
        /\ th[t1].pc \in {"g_delay", "g_step"}
        /\ th[t2].pc = "g_lock"
        /\ th[t2].h = th[t1].h
        /\ heap[th[t1].h].st = "live"

\* C2 (as claimed): nativeUnloadModel never destroys a wrapper while a
\* generate call is inside its critical section on that handle (unload would
\* have to own the handle's mutex to delete it).
C2_NoUnloadDuringGenerate ==
    [][\A h \in Handles :
          (heap[h].st = "live" /\ heap'[h].st = "freed") => InCritical(h) = {}]_vars

\* C3 (as claimed): every native model and context is freed at most once,
\* and none is still allocated once its wrapper has been deleted.
C3_ReleasedExactlyOnce ==
    \A h \in Handles :
        /\ native[h].model_frees <= 1
        /\ native[h].ctx_frees <= 1
        /\ heap[h].st = "freed" =>
              native[h].model # "live" /\ native[h].ctx # "live"

\* C4 (as claimed): a generate call whose tokenizer returned a negative count
\* aborts: the process lives, and the call is at its early return or has
\* returned the empty text.
C4_NegativeCountAborts ==
    \A t \in Threads :
        th[t].n_tokens < 0 =>
            /\ ~crashed
            /\ \/ th[t].pc = "g_abort"
               \/ th[t].pc = "ret" /\ th[t].rv = <<>>

\* a real-build generate call whose token loop has ended
LoopEnded(t) ==
    build = "real" /\ th[t].op = "generate" /\ th[t].exit # "none"

\* a real-build generate call inside the token loop or past it
LoopReached(t) ==
    build = "real" /\ (th[t].pc \in {"g_loop", "g_step"} \/ LoopEnded(t))

\* C5 (as claimed): the loop emits at most max_tokens tokens and ends with
\* fewer than max_tokens exactly when an end-of-generation token was sampled
\* or a per-token decode failed.
C5_EarlyExitAsClaimed ==
    \A t \in Threads :
        LoopEnded(t) =>
            /\ th[t].tokens_generated <= th[t].maxTokens
            /\ th[t].tokens_generated < th[t].maxTokens
                  <=> th[t].exit \in {"eog", "decode"}

C5_State ==
    \A t \in Threads :
        /\ LoopReached(t) =>
              /\ th[t].i <= th[t].maxTokens
              /\ th[t].tokens_generated <= th[t].maxTokens
        /\ LoopEnded(t) =>
              /\ th[t].tokens_generated < th[t].maxTokens
                    <=> \/ th[t].exit = "eog"
                        \/ th[t].exit = "decode" /\ th[t].i + 1 < th[t].maxTokens
              /\ th[t].exit = "budget" => th[t].i = th[t].maxTokens

C5_Step ==
    \A t \in Threads :
        \* every pass of the loop uses up one unit of the budget
        /\ (th[t].pc = "g_step" /\ th'[t].pc = "g_loop") =>
              th[t].maxTokens - th'[t].i < th[t].maxTokens - th[t].i
        \* a failed decode keeps the text, and the text is what is returned
        /\ (th[t].pc = "g_step" /\ th'[t].pc = "g_end") =>
              th'[t].result = th[t].result
        /\ (th[t].pc = "g_ret" /\ th'[t].pc = "ret") =>
              th'[t].rv = th[t].result

\* C5 (amended): the loop terminates (the remaining budget maxTokens - i is
\* never negative and shrinks with every pass), emits at most max_tokens
\* tokens, and ends with fewer than max_tokens tokens exactly when an
\* end-of-generation token was sampled or the decode of a token other than
\* the max_tokens-th failed; a decode failure leaves the text unchanged and
\* the call returns it.
C5_LoopBudget == []C5_State /\ [][C5_Step]_vars

\* C5 witness: the decode of the last budgeted token failed, so the loop was
\* left by "break" with the whole budget emitted, and the text was returned.
C5_Witness ==
    \E t \in Threads :
        /\ LoopEnded(t)
        /\ th[t].pc = "ret"
        /\ th[t].exit = "decode"
        /\ th[t].tokens_generated = th[t].maxTokens
        /\ th[t].rv = <<"a">>

\* C6 (as claimed): at the loop head and after the loop, however it ended,
\* n_cur is the prompt length plus the number of tokens reported as generated.
C6_PositionAsClaimed ==
    \A t \in Threads :
        (build = "real" /\ th[t].pc \in {"g_loop", "g_end", "g_ret"}) =>
            th[t].n_cur = th[t].n_tokens + th[t].tokens_generated

\* C6 (amended): n_cur starts at the prompt length and is the prompt length
\* plus the number of tokens whose decode succeeded.  That is
\* prompt_length + tokens_generated at the loop head and after an exit by
\* budget or end-of-generation token, and prompt_length + tokens_generated - 1
\* while the last token is being decoded and after its decode failed.
C6_Position ==
    \A t \in Threads :
        LoopReached(t) =>
            LET pending == IF th[t].pc = "g_step" \/ th[t].exit = "decode"
                           THEN 1 ELSE 0
            IN  /\ th[t].n_cur = th[t].n_tokens + th[t].i
                /\ th[t].n_cur = th[t].n_tokens + th[t].tokens_generated - pending

\* C6 witness: two tokens were counted after a two-token prompt, the decode
\* of the second failed, and n_cur stands at 3.
C6_Witness ==
    \E t \in Threads :
        /\ LoopEnded(t)
        /\ th[t].exit = "decode"
        /\ th[t].n_tokens = 2
        /\ th[t].tokens_generated = 2
        /\ th[t].n_cur = 3

\* C7 (as claimed): when a generate call on a live handle is about to return,
\* by the final return or by the early return, it holds the lock and the
\* handle's last_tokens_generated is the count of this call.  (Calls with an
\* empty prompt are left out: in the real build they pass an out-of-bounds
\* write first.)
C7_CountersDescribeCall ==
    \A t \in Threads :
        (/\ th[t].pc \in {"g_ret", "g_abort"}
         /\ heap[th[t].h].st = "live"
         /\ th[t].prompt # <<>>) =>
            /\ heap[th[t].h].mutex = t
            /\ heap[th[t].h].last_tokens_generated = th[t].tokens_generated

\* C8 (as claimed): nativeLoadModel of a path that is not a readable file
\* returns 0, in both builds.
C8_UnreadablePathFails ==
    \A t \in Threads :
        (th[t].pc = "ret" /\ th[t].op = "load" /\ ~Readable(th[t].path)) =>
            th[t].rv = 0

\* a call with handle 0 that returns in this step
NullCall(t) ==
    /\ th[t].pc = "idle"
    /\ th'[t].pc = "ret"
    /\ th'[t].op # "load"
    /\ th'[t].h = 0

\* the value each JNI function returns for handle 0
Sentinel(l) ==
    CASE l.op = "generate" -> l.rv = <<>>
      [] l.op = "isStubImplementation" -> l.rv = TRUE
      [] l.op = "unload" -> TRUE
      [] OTHER -> l.rv = 0

\* C9: a call of generate, unload or an accessor with handle 0 returns in one
\* step with its sentinel ("" for generate, true for isStubImplementation,
\* 0 for the other accessors) and leaves every wrapper, every mutex and every
\* native object as it was.
C9_NullHandle ==
    [][\A t \in Threads :
          NullCall(t) =>
              /\ Sentinel(th'[t])
              /\ heap' = heap
              /\ native' = native
              /\ crashed' = crashed]_vars

\* C9 witness: isStubImplementation(0) has returned true while a generate call
\* of the other thread holds the lock of a live handle.
C9_Witness ==
    \E t \in Threads, h \in Handles :
        /\ th[t].pc = "ret"
        /\ th[t].op = "isStubImplementation"
        /\ th[t].h = 0
        /\ th[t].rv = TRUE
        /\ heap[h].st = "live"
        /\ heap[h].mutex \notin {"none", t}

\* whether the lowercased text contains a literal of the table
HasLiteral(text, table) ==
    \E k \in 1..Len(table) : contains(text, table[k].regex_like)

\* C10 (as claimed): a task text that contains a literal of
\* ELIMINATE_PATTERNS is classified ELIMINATE.
C10_EliminateLiteralWins ==
    (verdict.called /\ HasLiteral(task_text, ELIMINATE_PATTERNS)) =>
        verdict.quadrant = S_ELIMINATE

\* whether the text contains an urgency literal whose confidence exceeds 0.8
\* (every urgency literal but "asap")
HasStrongUrgency(text) ==
    \E k \in 1..Len(URGENT_PATTERNS) :
        /\ contains(text, URGENT_PATTERNS[k].regex_like)
        /\ URGENT_PATTERNS[k].confidence > 80

\* C11 (as claimed): a text with an urgency literal, no importance literal and
\* no eliminate literal is classified DELEGATE, and DO is returned only when
\* an urgency literal and an importance literal are both present.
C11_IndependentSignalsAsClaimed ==
    verdict.called =>
        /\ (/\ HasLiteral(task_text, URGENT_PATTERNS)
            /\ ~HasLiteral(task_text, IMPORTANT_PATTERNS)
            /\ ~HasLiteral(task_text, ELIMINATE_PATTERNS)) =>
               verdict.quadrant = S_DELEGATE
        /\ verdict.quadrant = S_DO =>
               /\ HasLiteral(task_text, URGENT_PATTERNS)
               /\ HasLiteral(task_text, IMPORTANT_PATTERNS)

\* C11 (amended): importance is not decided by its own list alone: it also
\* holds when the urgency score exceeds 0.8.  A text whose urgency literals
\* all score at most 0.8 (only "asap" does), with no importance literal and no
\* eliminate literal, is classified DELEGATE; DO is returned only when an
\* urgency literal is present together with an importance literal or an
\* urgency literal scoring above 0.8.
C11_IndependentSignals ==
    verdict.called =>
        /\ (/\ HasLiteral(task_text, URGENT_PATTERNS)
            /\ ~HasStrongUrgency(task_text)
            /\ ~HasLiteral(task_text, IMPORTANT_PATTERNS)
            /\ ~HasLiteral(task_text, ELIMINATE_PATTERNS)) =>
               verdict.quadrant = S_DELEGATE
        /\ verdict.quadrant = S_DO =>
               /\ HasLiteral(task_text, URGENT_PATTERNS)
               /\ \/ HasLiteral(task_text, IMPORTANT_PATTERNS)
                  \/ HasStrongUrgency(task_text)

\* C11 witness: "asap buy milk " has been classified DELEGATE.
C11_Witness ==
    /\ verdict.called
    /\ task_text = F_ASAP \o F_MILK
    /\ verdict.quadrant = S_DELEGATE

\* whether the text contains no literal of any of the four tables
NoLiteral(text) ==
    /\ ~HasLiteral(text, URGENT_PATTERNS)
    /\ ~HasLiteral(text, IMPORTANT_PATTERNS)
    /\ ~HasLiteral(text, DELEGATE_PATTERNS)
    /\ ~HasLiteral(text, ELIMINATE_PATTERNS)

\* C12: a task text with no literal of any of the four tables is classified
\* SCHEDULE, and the record written for it carries the confidence as "0.60".
C12_DefaultFallback ==
    (verdict.called /\ NoLiteral(task_text)) =>
        /\ verdict.quadrant = S_SCHEDULE
        /\ verdict.json = J_QUADRANT \o S_SCHEDULE \o J_CONFIDENCE
                             \o <<"0", ".", "6", "0">> \o J_REASONING
                             \o R_DEFAULT \o J_CLOSE

\* C12 witness: "buy milk " has been classified.
C12_Witness ==
    /\ verdict.called
    /\ task_text = F_MILK
    /\ verdict.quadrant = S_SCHEDULE

\* the text with every letter in upper case, in lower case
UpperCase(s) ==
    [k \in 1..Len(s) |->
        IF \E m \in 1..26 : LowerChars[m] = s[k]
        THEN UpperChars[CHOOSE m \in 1..26 : LowerChars[m] = s[k]]
        ELSE s[k]]

LowerCase(s) ==
    [k \in 1..Len(s) |->
        IF \E m \in 1..26 : UpperChars[m] = s[k]
        THEN LowerChars[CHOOSE m \in 1..26 : UpperChars[m] = s[k]]
        ELSE s[k]]

\* C13: the verdict of a text is the verdict of every text that differs from
\* it only in the case of its letters (here: the text all in upper case and
\* all in lower case), record for record; the call changes nothing but the
\* harness's output.
C13_CaseInsensitive ==
    verdict.called =>
        /\ classify_eisenhower(UpperCase(task_text)) = verdict.json
        /\ classify_eisenhower(LowerCase(task_text)) = verdict.json
        /\ heap = [h \in Handles |-> NoWrapper]
        /\ native = [h \in Handles |-> NoNative]

\* C13 witness: the mixed-case text "URGENT Plan " has been classified DO.
C13_Witness ==
    /\ verdict.called
    /\ task_text = F_URGENT \o F_PLAN
    /\ verdict.quadrant = S_DO

\* whether the prompt carries a classification marker, the "Task:" tag
HasMarker(prompt) ==
    Find(prompt, S_Eisenhower) # npos \/ Find(prompt, S_quadrant) # npos

HasTaskTag(prompt) == Find(prompt, S_TaskColon) # npos

\* a generate call of the stub build on a live handle that has reached pc
StubCallAt(t, pc) ==
    /\ build = "stub"
    /\ th[t].pc = pc
    /\ th[t].op = "generate"
    /\ th[t].h # 0

\* C14 (as claimed): in the stub build a generate call whose prompt carries a
\* marker but no extractable task returns the classifier's verdict for the
\* whole prompt.
C14_WholePromptFallbackAsClaimed ==
    \A t \in Threads :
        (/\ StubCallAt(t, "ret")
         /\ HasMarker(th[t].prompt)
         /\ ~HasTaskTag(th[t].prompt)) =>
            th[t].rv = classify_eisenhower(th[t].prompt)

\* C14 (amended): in the stub build a generate call whose prompt carries a
\* marker always returns a text; without the "Task:" tag the text is the fixed
\* record with reasoning "Unable to parse task" and the classifier is not run,
\* with the tag it is the classifier's verdict for what follows the first tag.
C14_FixedFallback ==
    \A t \in Threads :
        (StubCallAt(t, "ret") /\ HasMarker(th[t].prompt)) =>
            /\ th[t].rv # <<>>
            /\ ~HasTaskTag(th[t].prompt) => th[t].rv = UNABLE_TO_PARSE
            /\ HasTaskTag(th[t].prompt) =>
                  th[t].rv = Serialize(Verdict(
                      substr(th[t].prompt, Find(th[t].prompt, S_TaskColon) + 5)))

\* C14 witness: "Which quadrant?" has been answered with the fixed record.
C14_Witness ==
    \E t \in Threads :
        /\ StubCallAt(t, "ret")
        /\ th[t].prompt = P_NO_TASK
        /\ th[t].rv = UNABLE_TO_PARSE

\* C15 (as claimed): when a stub generate call is about to return, the
\* handle's last_tokens_generated is 50 if the prompt carries a marker and 20
\* otherwise.
C15_TokenCountsAsClaimed ==
    \A t \in Threads :
        StubCallAt(t, "g_ret") =>
            heap[th[t].h].last_tokens_generated =
                IF HasMarker(th[t].prompt) THEN 50 ELSE 20

\* C15 (amended): when a stub generate call is about to return, the handle's
\* last_tokens_generated is 50 if the prompt carries a marker and the "Task:"
\* tag, 30 if it carries a marker and no tag, and 20 if it carries no marker.
C15_TokenCounts ==
    \A t \in Threads :
        StubCallAt(t, "g_ret") =>
            heap[th[t].h].last_tokens_generated =
                IF ~HasMarker(th[t].prompt) THEN 20
                ELSE IF HasTaskTag(th[t].prompt) THEN 50 ELSE 30

\* C15 witness: "Which quadrant?" is about to return with 30 tokens recorded.
C15_Witness ==
    \E t \in Threads :
        /\ StubCallAt(t, "g_ret")
        /\ th[t].prompt = P_NO_TASK
        /\ heap[th[t].h].last_tokens_generated = 30

\* a confidence written with exactly two decimals, between 0.00 and 1.00
IsTwoDecimal(s) ==
    /\ Len(s) = 4
    /\ s[2] = "."
    /\ \E a \in 1..2, b \in 1..10, c \in 1..10 :
          /\ s[1] = Digits[a] /\ s[3] = Digits[b] /\ s[4] = Digits[c]
          /\ (a = 2 => (b = 1 /\ c = 1))

\* whether the text is a verdict record in the classifier's format:
\* {"quadrant": "<LABEL>", "confidence": <d.dd>, "reasoning": "<text>"}
IsVerdictRecord(text) ==
    \E q \in {S_DO, S_SCHEDULE, S_DELEGATE, S_ELIMINATE} :
        LET head == J_QUADRANT \o q \o J_CONFIDENCE
            a    == Len(head)
            b    == a + 4 + Len(J_REASONING)
            e    == Len(text) - Len(J_CLOSE)
        IN  /\ e >= b
            /\ SubSeq(text, 1, a) = head
            /\ IsTwoDecimal(SubSeq(text, a + 1, a + 4))
            /\ SubSeq(text, a + 5, b) = J_REASONING
            /\ SubSeq(text, e + 1, Len(text)) = J_CLOSE
            /\ \A k \in (b + 1)..e : text[k] # "\""

\* C16 (as claimed): in the stub build every text returned for a prompt that
\* carries a marker is a verdict record: one of the four labels, a confidence
\* in [0, 1] written with exactly two decimals, and a reasoning string.
C16_VerdictRecord ==
    \A t \in Threads :
        (StubCallAt(t, "ret") /\ HasMarker(th[t].prompt)) =>
            IsVerdictRecord(th[t].rv)

\* a wrapper that is wholly simulated or wholly real
WhollyOneKind(h) ==
    IF heap[h].is_stub
    THEN /\ ~heap[h].model /\ ~heap[h].ctx
         /\ native[h].model = "none" /\ native[h].ctx = "none"
    ELSE /\ heap[h].model /\ heap[h].ctx
         /\ native[h].model = "live" /\ native[h].ctx = "live"

C17_State ==
    /\ \A h \in Handles : heap[h].st = "live" => WhollyOneKind(h)
    /\ \A t \in Threads :
          (th[t].pc = "ret" /\ th[t].op = "load" /\ th[t].rv # 0) =>
              heap[th[t].rv].st = "live"

C17_Step ==
    \A h \in Handles :
        (heap[h].st = "live" /\ heap'[h].st = "live") =>
            heap'[h].is_stub = heap[h].is_stub

\* C17: every handle that nativeLoadModel has returned and that has not been
\* unloaded is either simulated with no native model and no native context,
\* or real with both present and alive; and no step (generate, accessor)
\* changes is_stub of a live handle.
C17_NeverPartiallyReal == []C17_State /\ [][C17_Step]_vars

\* C17 witness: a generate call has returned on a real handle that still has
\* its model and its context.
C17_Witness ==
    \E t \in Threads :
        /\ th[t].pc = "ret" /\ th[t].op = "generate" /\ th[t].h # 0
        /\ heap[th[t].h].st = "live"
        /\ ~heap[th[t].h].is_stub
        /\ native[th[t].h].model = "live" /\ native[th[t].h].ctx = "live"
        /\ heap[th[t].h].last_tokens_generated > 0

\* C18 (as claimed): whenever a real generate call is at the decode of its
\* prompt, whatever the tokenizer returned (no token included), the batch
\* holds the n prompt tokens at positions 0..n-1 and the one position marked
\* for logits, n-1, is a valid index of the batch.
C18_PromptBatchLogits ==
    \A t \in Threads :
        (build = "real" /\ th[t].pc = "g_decode") =>
            LET batch == PromptBatch(Tokens(th[t].prompt))
            IN  /\ batch.n_tokens = th[t].n_tokens
                /\ \A k \in 1..batch.n_tokens : batch.pos[k] = k - 1
                /\ batch.logits_index = th[t].n_tokens - 1
                /\ batch.logits_index \in 0..(batch.n_tokens - 1)

\* what a context that has never been used holds and answers for the given
\* inputs: the cache before draw j, the token of draw j, the text of the
\* first k draws
RECURSIVE FreshContext(_, _, _, _)
RECURSIVE FreshToken(_, _, _, _)
FreshContext(prompt, temperature, topP, j) ==
    IF j = 0 THEN Tokens(prompt)
    ELSE FreshContext(prompt, temperature, topP, j - 1)
             \o <<FreshToken(prompt, temperature, topP, j - 1)>>

FreshToken(prompt, temperature, topP, j) ==
    llama_sampler_sample(FreshContext(prompt, temperature, topP, j), j,
                         temperature, topP)

RECURSIVE FreshText(_, _, _, _)
FreshText(prompt, temperature, topP, k) ==
    IF k = 0 THEN <<>>
    ELSE FreshText(prompt, temperature, topP, k - 1)
             \o Piece(FreshToken(prompt, temperature, topP, k - 1))

\* a real generate call on a live handle at one of the given positions
RealCallAt(t, pcs) ==
    /\ build = "real"
    /\ th[t].op = "generate"
    /\ th[t].h # 0
    /\ th[t].pc \in pcs
    /\ heap[th[t].h].st = "live"

C19_LockReleased ==
    \A t \in Threads :
        /\ (th[t].pc \in Critical) ~> (th[t].pc = "ret")
        /\ (th[t].pc = "g_lock") ~> (th[t].pc = "ret")

=============================================================================
